---- MODULE Spec2Model ----
(***************************************************************************)
(* Static Huffman file codec (src/src/huffman.rs).                         *)
(*                                                                         *)
(* encode_file: text -> nb_occ -> make_huffman_tree -> make_huffman_map -> *)
(*              header lines + packed payload.                             *)
(* decode_file: bytes -> header lines -> code table -> bit scan -> text.   *)
(*                                                                         *)
(* A symbol is a Rust char; the file is a sequence of bytes (0..255).      *)
(* Bits are booleans, as in the source (BitVec = Vec<bool>).               *)
(***************************************************************************)
EXTENDS Integers, Sequences, FiniteSets, TLC

\* ------------------------------------------------------------------ bounds
\* Longest input text of the file-level specification.
MaxTextLen == 3
\* Most distinct symbols, and highest count per symbol, of a frequency table
\* of the tree-level specification.
MaxDistinct == 4
MaxCount == 3
\* Longest codeword of the prefix codes the Huffman code is compared with.
MaxCodeLen == 3
\* Longest bit sequence handed to the packer in the packer-level specification.
MaxBitLen == 8
\* Decoder-level specification: highest declared symbol count, most payload bytes.
MaxDeclared == 5
MaxPayloadLen == 2
\* Decoder-level specification: longest codeword of a header's code table.
MaxTableCodeLen == 2

\* usize::MAX, the start value of min_vec_length.  It only has to lie above
\* every code length; TLC's integers are 32 bits wide.
UsizeMax == 2147483647

\* ---------------------------------------------------------------- symbols
\* One char per UTF-8 width and the two chars the header gives a role:
\* 'a', ' ', '\n', U+00E9 (2 bytes), U+20AC (3 bytes), U+1F600 (4 bytes).
SymbolOrder == <<"a", "SP", "NL", "U00E9", "U20AC", "U1F600">>

Alphabet == {SymbolOrder[i] : i \in 1..Len(SymbolOrder)}

\* The UTF-8 encoding format!("{}", c) writes for a char.
Utf8(c) ==
  CASE c = "a" -> <<97>>
    [] c = "SP" -> <<32>>
    [] c = "NL" -> <<10>>
    [] c = "U00E9" -> <<195, 169>>
    [] c = "U20AC" -> <<226, 130, 172>>
    [] c = "U1F600" -> <<240, 159, 152, 128>>

\* ------------------------------------------------------------ HuffmanTree
Char(c) == <<"Char", c>>

Node(tree1, tree2) == <<"Node", tree1, tree2>>

IsChar(tree) == tree[1] = "Char"

HuffmanWeight(t, w) == [tree |-> t, weight |-> w]

\* ------------------------------------------------------------------ nb_occ
\* map.insert(c, 1) for a new char, map.insert(c, k + 1) otherwise.
NbOccInsert(m, c) ==
  IF c \in DOMAIN m
    THEN [m EXCEPT ![c] = @ + 1]
    ELSE (c :> 1) @@ m

RECURSIVE NbOccFrom(_, _)
NbOccFrom(string, m) ==
  IF string = <<>> THEN m
  ELSE NbOccFrom(Tail(string), NbOccInsert(m, Head(string)))

nb_occ(string) == NbOccFrom(string, <<>>)

\* ------------------------------------------------------- make_huffman_tree
\* One Reverse(Box(HuffmanWeight{Char(c), i})) per entry of the table.  The
\* symbols are the keys of a map, so the nodes are pairwise distinct and the
\* heap is a set.
HeapOf(m) == {HuffmanWeight(Char(c), m[c]) : c \in DOMAIN m}

\* A pop that returns any node of the heap, whatever its weight.
PopCandidatesAny(h) == h

\* heap.pop() of a BinaryHeap of Reverse(..) ordered by weight alone: some
\* node of lowest weight; which one among equals is not determined (the heap
\* is filled in the iteration order of a HashMap).
PopCandidates(h) == {x \in h : \A y \in h : x.weight <= y.weight}

\* A merge that keeps the first weight only.
MergedWeightFirst(w1, w2) == w1

\* weight: tree1.weight + tree2.weight
MergedWeight(w1, w2) == w1 + w2

Merged(tree1, tree2) ==
  HuffmanWeight(Node(tree1.tree, tree2.tree),
                MergedWeight(tree1.weight, tree2.weight))

\* -------------------------------------------------------- make_huffman_map
\* Both children pushed with the bit false.
ChildCodeSame(code, bit) == Append(code, FALSE)

\* code.clone() followed by push(bit)
ChildCode(code, bit) == Append(code, bit)

\* The while loop over the stack (a LinkedList used at its front).
RECURSIVE MapLoop(_, _)
MapLoop(stack, m) ==
  IF stack = <<>> THEN m
  ELSE LET t == Head(stack)[1]
           code == Head(stack)[2]
           rest == Tail(stack)
       IN IF IsChar(t)
            THEN MapLoop(rest, (t[2] :> code) @@ m)
            ELSE MapLoop(<< <<t[3], ChildCode(code, TRUE)>>,
                            <<t[2], ChildCode(code, FALSE)>> >> \o rest, m)

make_huffman_map(t) == MapLoop(<< <<t, <<>> >> >>, <<>>)

\* --------------------------------------------------- tree and code measures
RECURSIVE Leaves(_)
Leaves(t) == IF IsChar(t) THEN {t[2]} ELSE Leaves(t[2]) \cup Leaves(t[3])

RECURSIVE LeafCount(_)
LeafCount(t) == IF IsChar(t) THEN 1 ELSE LeafCount(t[2]) + LeafCount(t[3])

RECURSIVE SumOver(_, _)
SumOver(S, f) ==
  IF S = {} THEN 0
  ELSE LET x == CHOOSE y \in S : TRUE IN f[x] + SumOver(S \ {x}, f)

IsPrefix(s, t) == Len(s) <= Len(t) /\ SubSeq(t, 1, Len(s)) = s

\* ------------------------------------------------- encode_file, the header
BitChar(b) == IF b THEN 49 ELSE 48

bit_vec_to_string(v) == [i \in 1..Len(v) |-> BitChar(v[i])]

\* format!("{}", n) for an unsigned integer: its decimal digits.
RECURSIVE Decimal(_)
Decimal(n) ==
  IF n < 10 THEN <<48 + n>> ELSE Decimal(n \div 10) \o <<48 + (n % 10)>>

\* format!("{} {}", contents.chars().count(), map.len())
FirstLine(n, k) == Decimal(n) \o <<32>> \o Decimal(k)

\* format!("{} {}", c, bit_vec_to_string(v.to_vec()))
TableLine(c, v) == Utf8(c) \o <<32>> \o bit_vec_to_string(v)

\* lines.join("\n")
RECURSIVE Join(_, _)
Join(ls, sep) ==
  IF ls = <<>> THEN <<>>
  ELSE IF Len(ls) = 1 THEN ls[1]
  ELSE ls[1] \o <<sep>> \o Join(Tail(ls), sep)

\* The iteration orders map.iter() can take.
Orders(S) ==
  {o \in [1..Cardinality(S) -> S] : \A i, j \in DOMAIN o : i # j => o[i] # o[j]}

\* The lines vector for a text of n chars, table m, iteration order o, written
\* by writeln!: the joined lines and one more newline.
HeaderBytes(n, m, o) ==
  Join(<<FirstLine(n, Cardinality(DOMAIN m))>>
         \o [i \in 1..Len(o) |-> TableLine(o[i], m[o[i]])], 10) \o <<10>>

\* ------------------------------------------------ encode_file, the payload
\* bytes.append(map.get(&c).unwrap().clone()) for each char of the text.
RECURSIVE EncodeBits(_, _)
EncodeBits(string, m) ==
  IF string = <<>> THEN <<>>
  ELSE m[Head(string)] \o EncodeBits(Tail(string), m)

\* for _ in 1..(9 - bytes.len() % 8): the range holds 8 - len % 8 values.
PadCount(n) == (9 - (n % 8)) - 1

Pad(v) == v \o [i \in 1..PadCount(Len(v)) |-> FALSE]

\* The closure over one chunk: i runs from 7 down to 0.
RECURSIVE ChunkLoop(_, _, _, _)
ChunkLoop(chunk, i, carry, m) ==
  IF i < 0 THEN carry
  ELSE ChunkLoop(chunk, i - 1,
                 IF chunk[i + 1] THEN carry + m ELSE carry,
                 IF i > 0 THEN m * 2 ELSE m)

ChunkByte(chunk) == ChunkLoop(chunk, 7, 0, 1)

\* bytes.chunks(8).map(..).collect()
Pack(v) ==
  [k \in 1..((Len(v) + 7) \div 8) |->
     ChunkByte(SubSeq(v, 8 * (k - 1) + 1,
                      IF 8 * k < Len(v) THEN 8 * k ELSE Len(v)))]

\* --------------------------------------------------------- byte_to_bit_vec
RECURSIVE ByteLoop(_, _, _, _)
ByteLoop(v, r, n, k) ==
  IF k = 0 THEN v
  ELSE ByteLoop(Append(v, (r \div n) = 1), r % n, n \div 2, k - 1)

byte_to_bit_vec(b) == ByteLoop(<<>>, b, 128, 8)

\* payload.iter().for_each(|b| code.append(&mut byte_to_bit_vec(*b)))
RECURSIVE Unpack(_)
Unpack(bs) ==
  IF bs = <<>> THEN <<>> ELSE byte_to_bit_vec(Head(bs)) \o Unpack(Tail(bs))

\* ------------------------------------------------- decode_file, the header
\* encoded.split('\n') on the bytes of the file.  The file went through
\* String::from_utf8_unchecked; the search for the one-byte char '\n' and the
\* copies of the pieces work on the bytes, whatever they are.
RECURSIVE SplitLoop(_, _, _, _)
SplitLoop(bs, sep, cur, acc) ==
  IF bs = <<>> THEN Append(acc, cur)
  ELSE IF Head(bs) = sep
    THEN SplitLoop(Tail(bs), sep, <<>>, Append(acc, cur))
    ELSE SplitLoop(Tail(bs), sep, Append(cur, Head(bs)), acc)

Split(bs, sep) == SplitLoop(bs, sep, <<>>, <<>>)

\* Index of the first byte b of bs, 0 when there is none (split_once).
FirstIndex(bs, b) ==
  IF \E i \in 1..Len(bs) : bs[i] = b
    THEN CHOOSE i \in 1..Len(bs) : bs[i] = b /\ \A j \in 1..(i - 1) : bs[j] # b
    ELSE 0

\* str::parse::<u32>: an optional '+', then one or more decimal digits.
Digits(bs) == IF bs # <<>> /\ bs[1] = 43 THEN Tail(bs) ELSE bs

ParseOk(bs) ==
  /\ Digits(bs) # <<>>
  /\ \A i \in 1..Len(Digits(bs)) : Digits(bs)[i] \in 48..57

RECURSIVE DigitsValue(_, _)
DigitsValue(ds, acc) ==
  IF ds = <<>> THEN acc ELSE DigitsValue(Tail(ds), 10 * acc + (Head(ds) - 48))

ParseValue(bs) == DigitsValue(Digits(bs), 0)

\* str::trim on a piece of a header line: the white space a line can hold
\* around its code is ASCII.
WhiteSpace == {9, 10, 11, 12, 13, 32}

RECURSIVE TrimStart(_)
TrimStart(bs) ==
  IF bs # <<>> /\ Head(bs) \in WhiteSpace THEN TrimStart(Tail(bs)) ELSE bs

RECURSIVE TrimEnd(_)
TrimEnd(bs) ==
  IF bs # <<>> /\ bs[Len(bs)] \in WhiteSpace
    THEN TrimEnd(SubSeq(bs, 1, Len(bs) - 1))
    ELSE bs

Trim(bs) == TrimEnd(TrimStart(bs))

\* string_to_bit_vec: panics on any char other than '0' and '1'.
StringOk(bs) == \A i \in 1..Len(bs) : bs[i] \in {48, 49}

string_to_bit_vec(bs) == [i \in 1..Len(bs) |-> bs[i] = 49]

\* str::is_char_boundary: the start, the end, or a byte that is no UTF-8
\* continuation byte (0x80..0xBF).
IsCharBoundary(bs, idx) ==
  IF idx = 0 THEN TRUE
  ELSE IF idx >= Len(bs) THEN idx = Len(bs)
  ELSE bs[idx + 1] \notin 128..191

\* lines[line_index].split_at(2) panics unless byte index 2 is a char boundary.
SplitAtOk(bs) == IsCharBoundary(bs, 2)

\* lines[line_index].chars().nth(0).unwrap() on a line that starts with a char.
FirstChar(bs) == CHOOSE c \in Alphabet : IsPrefix(Utf8(c), bs)

Min(a, b) == IF a <= b THEN a ELSE b

Parsed(li, m, minlen) ==
  [panic |-> FALSE, line_index |-> li, map |-> m, min |-> minlen]

Panicked == [panic |-> TRUE, line_index |-> 0, map |-> <<>>, min |-> 0]

\* while chars_processed < distinct_chars_count { .. }; line_index counts
\* from 0 as in the source.
RECURSIVE HeaderLoop(_, _, _, _, _, _)
HeaderLoop(lines, line_index, chars_processed, distinct, m, minlen) ==
  IF ~(chars_processed < distinct) THEN Parsed(line_index, m, minlen)
  ELSE IF line_index >= Len(lines) THEN Panicked
  ELSE IF lines[line_index + 1] = <<>>
    THEN IF line_index + 1 >= Len(lines) THEN Panicked
         ELSE LET s == Trim(lines[line_index + 2])
              IN IF ~StringOk(s) THEN Panicked
                 ELSE HeaderLoop(lines, line_index + 2, chars_processed + 1,
                                 distinct,
                                 (string_to_bit_vec(s) :> "NL") @@ m,
                                 Min(minlen, Len(s)))
    ELSE LET line == lines[line_index + 1]
         IN IF ~SplitAtOk(line) THEN Panicked
            ELSE LET s == Trim(SubSeq(line, 3, Len(line)))
                 IN IF ~StringOk(s) THEN Panicked
                    ELSE HeaderLoop(lines, line_index + 1, chars_processed + 1,
                                    distinct,
                                    (string_to_bit_vec(s) :> FirstChar(line)) @@ m,
                                    Min(minlen, Len(s)))

\* ------------------------------------------------------------------- state
VARIABLES
  pc,              \* position in encode_file / decode_file
  contents,        \* encode_file: the input text, a sequence of chars
  freq,            \* the table nb_occ returned
  heap,            \* make_huffman_tree: the BinaryHeap
  merges,          \* make_huffman_tree: iterations of the while loop so far
  tree,            \* the tree make_huffman_tree returned
  map,             \* encode_file: the table make_huffman_map returned
  bits,            \* encode_file: `bytes` as a bit vector, before the padding
  padded,          \* encode_file: `bytes` as a bit vector, after the padding
  bytes,           \* encode_file: `bytes` as Vec<u8>
  file,            \* the encoded file, a sequence of bytes
  chars_count,     \* decode_file: first header field
  dmap,            \* decode_file: `map`, bits -> char
  min_vec_length,  \* decode_file
  payload,         \* decode_file: `payload`
  code,            \* decode_file: the payload as bits
  start,           \* decode_file: scan position
  length,          \* decode_file: window length
  l,               \* decode_file: symbols emitted
  out,             \* decode_file: emitted symbols
  encResult,       \* "none", "ok" (Ok(())) or "panic" (the process aborts)
  decResult        \* "none", "ok" (Ok(())) or "panic" (the process aborts)

vars == <<pc, contents, freq, heap, merges, tree, map, bits, padded, bytes,
          file, chars_count, dmap, min_vec_length, payload, code, start,
          length, l, out, encResult, decResult>>

treeVars == <<freq, heap, merges, tree, map>>

packVars == <<bits, padded, bytes>>

decVars == <<chars_count, dmap, min_vec_length, payload, code, start, length,
             l, out>>

\* The state before anything ran: at position p, with input text t, bit
\* vector b and file f.
Fresh(p, t, b, f) ==
  /\ pc = p
  /\ contents = t
  /\ freq = <<>>
  /\ heap = {}
  /\ merges = 0
  /\ tree = <<>>
  /\ map = <<>>
  /\ bits = b
  /\ padded = <<>>
  /\ bytes = <<>>
  /\ file = f
  /\ chars_count = 0
  /\ dmap = <<>>
  /\ min_vec_length = UsizeMax
  /\ payload = <<>>
  /\ code = <<>>
  /\ start = 0
  /\ length = 0
  /\ l = 0
  /\ out = <<>>
  /\ encResult = "none"
  /\ decResult = "none"

\* ----------------------------------------------- encode_file, line 139
\* nb_occ(contents.clone())
NbOcc ==
  /\ pc = "start"
  /\ freq' = nb_occ(contents)
  /\ pc' = "count"
  /\ UNCHANGED <<contents, heap, merges, tree, map, packVars, file, decVars,
                 encResult, decResult>>

\* make_huffman_tree: the heap is filled with one leaf per table entry.
MakeHeap ==
  /\ pc = "count"
  /\ heap' = HeapOf(freq)
  /\ pc' = "merge"
  /\ UNCHANGED <<contents, freq, merges, tree, map, packVars, file, decVars,
                 encResult, decResult>>

\* make_huffman_tree: one iteration of `while heap.len() > 1`.
Merge ==
  /\ pc = "merge"
  /\ Cardinality(heap) > 1
  /\ \E tree1 \in PopCandidates(heap) :
       \E tree2 \in PopCandidates(heap \ {tree1}) :
         heap' = (heap \ {tree1, tree2}) \cup {Merged(tree1, tree2)}
  /\ merges' = merges + 1
  /\ UNCHANGED <<pc, contents, freq, tree, map, packVars, file, decVars,
                 encResult, decResult>>

\* make_huffman_tree: the loop has ended; heap.pop().unwrap() panics on an
\* empty heap, otherwise the root goes to make_huffman_map.
PopRoot ==
  /\ pc = "merge"
  /\ Cardinality(heap) <= 1
  /\ IF heap = {}
       THEN /\ pc' = "aborted"
            /\ encResult' = "panic"
            /\ UNCHANGED <<heap, tree, map>>
       ELSE /\ \E root \in PopCandidates(heap) :
                 /\ heap' = heap \ {root}
                 /\ tree' = root.tree
                 /\ map' = make_huffman_map(root.tree)
            /\ pc' = "mapped"
            /\ UNCHANGED encResult
  /\ UNCHANGED <<contents, freq, merges, packVars, file, decVars, decResult>>

\* ------------------------------------------- tree-level specification
RECURSIVE Repeat(_, _)
Repeat(c, n) == IF n = 0 THEN <<>> ELSE <<c>> \o Repeat(c, n - 1)

\* The text with counts[i] copies of the i-th symbol, for i = 1..k.
RECURSIVE TextOf(_, _)
TextOf(k, counts) ==
  IF k = 0 THEN <<>>
  ELSE TextOf(k - 1, counts) \o Repeat(SymbolOrder[k], counts[k])

\* One text per frequency table over the first k symbols; the order of the
\* symbols in the text does not reach the tree (only the table does).
TreeTexts ==
  UNION {{TextOf(k, counts) : counts \in [1..k -> 1..MaxCount]} :
           k \in 1..MaxDistinct}

InitTree == \E t \in TreeTexts : Fresh("start", t, <<>>, <<>>)

NextTree == NbOcc \/ MakeHeap \/ Merge \/ PopRoot

SpecTree == InitTree /\ [][NextTree]_vars

\* ------------------------------------------- encode_file, lines 141-178
\* The header lines in the table's iteration order, the bits of the text, the
\* padding, the bytes, and the two writes.
WriteFile ==
  /\ pc = "mapped"
  /\ \E o \in Orders(DOMAIN map) :
       LET b == EncodeBits(contents, map)
       IN /\ bits' = b
          /\ padded' = Pad(b)
          /\ bytes' = Pack(Pad(b))
          /\ file' = HeaderBytes(Len(contents), map, o) \o Pack(Pad(b))
  /\ encResult' = "ok"
  /\ pc' = "encoded"
  /\ UNCHANGED <<contents, treeVars, decVars, decResult>>

\* ------------------------------------------- decode_file, lines 181-227
\* The header is parsed, the payload unpacked, the scan variables set.  Every
\* unwrap, index and split_at of these lines aborts the process on failure.
DecodeHeader ==
  /\ pc = "encoded"
  /\ LET lines == Split(file, 10)
         sp == FirstIndex(lines[1], 32)
         first0 == SubSeq(lines[1], 1, sp - 1)
         first1 == SubSeq(lines[1], sp + 1, Len(lines[1]))
         h == HeaderLoop(lines, 1, 0, ParseValue(first1), <<>>, UsizeMax)
     IN IF sp = 0 \/ ~ParseOk(first0) \/ ~ParseOk(first1) \/ h.panic
          THEN /\ pc' = "aborted"
               /\ decResult' = "panic"
               /\ UNCHANGED decVars
          ELSE /\ chars_count' = ParseValue(first0)
               /\ dmap' = h.map
               /\ min_vec_length' = h.min
               /\ payload' = Join(SubSeq(lines, h.line_index + 1, Len(lines)), 10)
               /\ code' = Unpack(payload')
               /\ start' = 0
               /\ length' = h.min
               /\ l' = 0
               /\ out' = <<>>
               /\ pc' = "scan"
               /\ UNCHANGED decResult
  /\ UNCHANGED <<contents, treeVars, packVars, file, encResult>>

\* One iteration of `while start < code.len() && l < chars_count`; the slice
\* code[start..(start + length)] aborts the process when it ends past the code.
DecodeLoop ==
  /\ pc = "scan"
  /\ start < Len(code) /\ l < chars_count
  /\ IF start + length > Len(code)
       THEN /\ pc' = "aborted"
            /\ decResult' = "panic"
            /\ UNCHANGED <<start, length, l, out>>
       ELSE LET chunk == SubSeq(code, start + 1, start + length)
            IN /\ IF chunk \in DOMAIN dmap
                    THEN /\ out' = Append(out, dmap[chunk])
                         /\ start' = start + length
                         /\ length' = min_vec_length
                         /\ l' = l + 1
                    ELSE /\ length' = length + 1
                         /\ UNCHANGED <<start, l, out>>
               /\ UNCHANGED <<pc, decResult>>
  /\ UNCHANGED <<contents, treeVars, packVars, file, chars_count, dmap,
                 min_vec_length, payload, code, encResult>>

\* The loop has ended: the emitted chars are written and Ok(()) returned.
DecodeDone ==
  /\ pc = "scan"
  /\ ~(start < Len(code) /\ l < chars_count)
  /\ decResult' = "ok"
  /\ pc' = "done"
  /\ UNCHANGED <<contents, treeVars, packVars, file, decVars, encResult>>

\* ------------------------------------------- file-level specification
\* encode_file on a text, then decode_file on the file it wrote.
Texts == UNION {[1..n -> Alphabet] : n \in 0..MaxTextLen}

Init == \E t \in Texts : Fresh("start", t, <<>>, <<>>)

Next ==
  \/ NbOcc
  \/ MakeHeap
  \/ Merge
  \/ PopRoot
  \/ WriteFile
  \/ DecodeHeader
  \/ DecodeLoop
  \/ DecodeDone

Spec == Init /\ [][Next]_vars

\* ------------------------------------------ packer-level specification
\* The padding and chunking of encode_file and the unpacking of decode_file
\* applied to a bit sequence.
PadStep ==
  /\ pc = "pack"
  /\ padded' = Pad(bits)
  /\ pc' = "padded"
  /\ UNCHANGED <<contents, treeVars, bits, bytes, file, decVars, encResult,
                 decResult>>

PackStep ==
  /\ pc = "padded"
  /\ bytes' = Pack(padded)
  /\ pc' = "packed"
  /\ UNCHANGED <<contents, treeVars, bits, padded, file, decVars, encResult,
                 decResult>>

UnpackStep ==
  /\ pc = "packed"
  /\ code' = Unpack(bytes)
  /\ pc' = "unpacked"
  /\ UNCHANGED <<contents, treeVars, packVars, file, chars_count, dmap,
                 min_vec_length, payload, start, length, l, out, encResult,
                 decResult>>

BitSeqs(n) == UNION {[1..k -> BOOLEAN] : k \in 0..n}

InitPack == \E b \in BitSeqs(MaxBitLen) : Fresh("pack", <<>>, b, <<>>)

NextPack == PadStep \/ PackStep \/ UnpackStep

SpecPack == InitPack /\ [][NextPack]_vars

\* ----------------------------------------- decoder-level specification
\* decode_file on a file with a well-formed header and any payload: the
\* header of a text of n chars under the code table of some strictly binary
\* tree, followed by bytes that need not be what encode_file packed (a
\* truncated or damaged payload).
PrefixFree(m) ==
  \A c, d \in DOMAIN m : c # d => ~IsPrefix(m[c], m[d])

Pow2(n) == 2 ^ n

\* The code lengths fill the code space: the table of a strictly binary tree.
Complete(m, maxlen) ==
  SumOver(DOMAIN m, [c \in DOMAIN m |-> Pow2(maxlen - Len(m[c]))]) = Pow2(maxlen)

DecSymbols == {SymbolOrder[i] : i \in 1..3}

DecTables ==
  UNION {{m \in [S -> BitSeqs(MaxTableCodeLen)] :
            PrefixFree(m) /\ Complete(m, MaxTableCodeLen)} :
           S \in (SUBSET DecSymbols) \ {{}}}

DecBytes == {0, 10, 127, 255}

Payloads == UNION {[1..k -> DecBytes] : k \in 0..MaxPayloadLen}

InitDecode ==
  \E n \in 0..MaxDeclared, m \in DecTables, bs \in Payloads :
    \E o \in Orders(DOMAIN m) :
      Fresh("encoded", <<>>, <<>>, HeaderBytes(n, m, o) \o bs)

NextDecode == DecodeHeader \/ DecodeLoop \/ DecodeDone

SpecDecode == InitDecode /\ [][NextDecode]_vars

\* ================================================================ claims

\* ------------------------------------------------------------------- C3
\* C3: the table make_huffman_map(make_huffman_tree(freq)) returns gives
\* every symbol of freq exactly one code (one leaf and one table entry per
\* symbol), and of two distinct symbols neither code is a prefix of the
\* other, whatever the heap's tie-break order.
C3_PrefixFree ==
  pc = "mapped" =>
    /\ DOMAIN map = DOMAIN freq
    /\ LeafCount(tree) = Cardinality(DOMAIN freq)
    /\ PrefixFree(map)

\* A table of three or more symbols with codes of different lengths.
C3_Witness ==
  /\ pc = "mapped"
  /\ Cardinality(DOMAIN map) >= 3
  /\ \E c, d \in DOMAIN map : Len(map[c]) < Len(map[d])

\* ------------------------------------------------------------------- C4
\* Total encoded bit length of the text under code lengths lens: the sum of
\* count times length over the first i symbols of SymbolOrder.
RECURSIVE CostUpTo(_, _)
CostUpTo(lens, i) ==
  IF i = 0 THEN 0
  ELSE LET c == SymbolOrder[i]
       IN (IF c \in DOMAIN freq THEN freq[c] * lens[c] ELSE 0)
            + CostUpTo(lens, i - 1)

Cost(lens) == CostUpTo(lens, Len(SymbolOrder))

CodeLengths(m) == [c \in DOMAIN m |-> Len(m[c])]

\* Kraft's inequality: the codeword lengths of the prefix codes over a set of
\* symbols are exactly the length assignments with sum of 2^-len at most 1
\* (here scaled by 2^MaxCodeLen).
RECURSIVE KraftUpTo(_, _)
KraftUpTo(lens, i) ==
  IF i = 0 THEN 0
  ELSE LET c == SymbolOrder[i]
       IN (IF c \in DOMAIN lens THEN 2 ^ (MaxCodeLen - lens[c]) ELSE 0)
            + KraftUpTo(lens, i - 1)

Kraft(lens) == KraftUpTo(lens, Len(SymbolOrder)) <= 2 ^ MaxCodeLen

\* C4: the total encoded bit length (sum of count times code length) under
\* the table of make_huffman_tree and make_huffman_map is at most the total
\* under any prefix code for the same frequency table (here: any with
\* codewords of at most MaxCodeLen bits), whatever the tie-break order.
C4_Optimal ==
  pc = "mapped" =>
    LET huffman == Cost(CodeLengths(map))
    IN \A lens \in [DOMAIN freq -> 0..MaxCodeLen] :
         Kraft(lens) => huffman <= Cost(lens)

\* A table whose optimum is not the balanced code: four symbols, one of them
\* with a 1-bit code and one with a 3-bit code.
C4_Witness ==
  /\ pc = "mapped"
  /\ Cardinality(DOMAIN map) >= 4
  /\ \E c, d \in DOMAIN map : Len(map[c]) = 1 /\ Len(map[d]) = 3

\* ------------------------------------------------------------------- C9
HeapWeights == SumOver(heap, [x \in heap |-> x.weight])

Lowest(x, h) == x \in h /\ \A y \in h : x.weight <= y.weight

RECURSIVE StrictlyBinary(_)
StrictlyBinary(t) ==
  \/ Len(t) = 2 /\ t[1] = "Char"
  \/ Len(t) = 3 /\ t[1] = "Node" /\ StrictlyBinary(t[2]) /\ StrictlyBinary(t[3])

\* While the loop runs: the weights in the heap sum to the text length, every
\* symbol is in exactly one leaf of exactly one heap node, and the heap has
\* shrunk by one per iteration.
C9_LoopInv ==
  pc = "merge" =>
    /\ HeapWeights = Len(contents)
    /\ \A c \in DOMAIN freq :
         Cardinality({x \in heap : c \in Leaves(x.tree)}) = 1
    /\ \A x \in heap : LeafCount(x.tree) = Cardinality(Leaves(x.tree))
    /\ Cardinality(heap) = Cardinality(DOMAIN freq) - merges

\* After the loop: n - 1 iterations were made and the root is a strictly
\* binary tree with the n symbols as its leaves (a single leaf when n = 1).
C9_LoopEnd ==
  pc = "mapped" =>
    /\ merges = Cardinality(DOMAIN freq) - 1
    /\ StrictlyBinary(tree)
    /\ LeafCount(tree) = Cardinality(DOMAIN freq)
    /\ Leaves(tree) = DOMAIN freq
    /\ (Cardinality(DOMAIN freq) = 1 => IsChar(tree))

\* One iteration: two lowest-weight nodes leave the heap and one node with
\* the sum of their weights enters it.
C9_Step ==
  (pc = "merge" /\ merges' # merges) =>
    \E t1 \in heap : \E t2 \in heap \ {t1} :
      /\ Lowest(t1, heap)
      /\ Lowest(t2, heap \ {t1})
      /\ \E x \in heap' :
           /\ x.weight = t1.weight + t2.weight
           /\ heap' = (heap \ {t1, t2}) \cup {x}
      /\ Cardinality(heap') = Cardinality(heap) - 1

\* C9: every iteration of the loop of make_huffman_tree removes the two
\* lowest-weight nodes and inserts one node weighing their sum, so the heap
\* shrinks by exactly one, the weights keep summing to the text length and
\* each symbol stays in exactly one leaf of one heap node; the loop ends
\* after exactly n - 1 merges with a strictly binary tree of n leaves.
C9_MergeLoop == [](C9_LoopInv /\ C9_LoopEnd) /\ [][C9_Step]_vars

\* In the middle of the loop of a four-symbol table: two merges made, one to go.
C9_Witness ==
  /\ pc = "merge"
  /\ merges >= 2
  /\ Cardinality(heap) >= 2

\* ------------------------------------------------------------------- C1
\* C1: for every non-empty text, whatever its symbols (newline, space, any
\* UTF-8 width), the tie-break order and the order of the table lines,
\* encode_file and then decode_file both return and decode_file writes
\* exactly the text.
C1_RoundTrip ==
  contents # <<>> =>
    /\ encResult # "panic"
    /\ decResult # "panic"
    /\ (pc = "done" => decResult = "ok" /\ out = contents)

\* ------------------------------------------------------------------- C2
OneSymbol(t) == t # <<>> /\ \A i \in 1..Len(t) : t[i] = t[1]

\* C2: a text of one distinct symbol repeated N >= 1 times round-trips: the
\* symbol gets the zero-length code of the single-leaf tree, and decode_file
\* returns after emitting exactly N copies of it.
C2_OneSymbolRoundTrip ==
  OneSymbol(contents) =>
    /\ encResult # "panic"
    /\ decResult # "panic"
    /\ (pc \in {"mapped", "encoded", "scan", "done"} =>
          IsChar(tree) /\ map[contents[1]] = <<>>)
    /\ (pc = "done" =>
          decResult = "ok" /\ l = Len(contents) /\ out = contents)

\* ------------------------------------------------------------------- C5
\* The scan window ends past the payload with symbols still to emit.
WindowOverrun ==
  /\ start < Len(code)
  /\ l < chars_count
  /\ start + length > Len(code)

\* C5: when the bit window grows past the remaining payload without matching
\* a code, decode_file returns a failure value ("err"); it does not abort the
\* process, go on scanning, or return success.
C5_CorruptPayloadFails ==
  WindowOverrun => (pc = "scan" \/ decResult = "err")

\* ------------------------------------------------------------------- C6
\* C6: on an empty input text encode_file returns (a trivial file or a
\* rejection value); it never aborts in make_huffman_tree.
C6_EmptyInputHandled ==
  contents = <<>> => encResult # "panic"

\* ------------------------------------------------------------------- C7
\* C7: a bit sequence whose length is a multiple of 8, padded and chunked as
\* encode_file does and then unpacked byte by byte with byte_to_bit_vec, comes
\* back unchanged, with no bits added or removed.
C7_PackUnpackWholeBytes ==
  (pc = "unpacked" /\ Len(bits) % 8 = 0) => code = bits

\* ------------------------------------------------------------------- C8
\* C8: the table decode_file parses from the header lines encode_file wrote
\* is the inverse of the code table, entry for entry, for every symbol
\* (newline, space, UTF-8 widths 1 to 4), and the bytes after the parsed
\* lines are the packed payload.
C8_TableRoundTrip ==
  encResult = "ok" =>
    /\ decResult # "panic"
    /\ (pc \in {"scan", "done"} =>
          /\ DOMAIN dmap = {map[c] : c \in DOMAIN map}
          /\ Cardinality(DOMAIN dmap) = Cardinality(DOMAIN map)
          /\ \A c \in DOMAIN map : dmap[map[c]] = c
          /\ payload = bytes)

\* ------------------------------------------------------------------ C10
\* C10: whenever decode_file returns success it has emitted as many symbols
\* as the header declares, also when the payload ends early.
C10_SuccessMeansDeclaredCount ==
  decResult = "ok" => (l = chars_count /\ Len(out) = chars_count)

====
